---- MODULE Spec2Model ----
(***************************************************************************)
(* A model of finalHW.py: the address book (Field, Phone, Birthday,        *)
(* Record, AddressBook), the persistence pair load_data / save_data, the   *)
(* command handlers wrapped by input_error, and main's dispatch loop.      *)
(*                                                                         *)
(* Python strings are sequences of one-character strings, so that the      *)
(* regular expression of Phone, strptime, strftime and "; ".join are       *)
(* computed character by character.  Dates are records                     *)
(* [year, month, day] with the proleptic Gregorian ordinal of              *)
(* datetime.date (ordinal 1 is Monday 0001-01-01).                         *)
(***************************************************************************)
EXTENDS Integers, Sequences, FiniteSets, TLC

VARIABLES pc, file, book, last, out

vars == <<pc, file, book, last, out>>

(***************************************************************************)
(* Bounds of the model.                                                    *)
(***************************************************************************)
\* add-contact and add_phone are not called on a book that holds MaxPhones
\* phones.
MaxPhones == 3

(***************************************************************************)
(* Results of calls.  exc is "" when the call returned, else the name of   *)
(* the exception it raised; msg is str(e).                                  *)
(***************************************************************************)
NoExc == ""

(***************************************************************************)
(* Characters and strings.                                                 *)
(***************************************************************************)
DigitChars == <<"0", "1", "2", "3", "4", "5", "6", "7", "8", "9">>

IsDigit(c) == \E i \in 1..10 : DigitChars[i] = c

DigitVal(c) == (CHOOSE i \in 1..10 : DigitChars[i] = c) - 1

DigitChar(n) == DigitChars[n + 1]

AllDigits(s) == \A i \in 1..Len(s) : IsDigit(s[i])

RECURSIVE IntOf(_)
\* int() of a non-empty string of decimal digits.
IntOf(s) ==
    IF Len(s) = 0 THEN 0
    ELSE 10 * IntOf(SubSeq(s, 1, Len(s) - 1)) + DigitVal(s[Len(s)])

RECURSIVE JoinWith(_, _)
\* sep.join(strs)
JoinWith(sep, strs) ==
    IF Len(strs) = 0 THEN <<>>
    ELSE IF Len(strs) = 1 THEN strs[1]
    ELSE strs[1] \o sep \o JoinWith(sep, Tail(strs))

(***************************************************************************)
(* datetime.date                                                           *)
(***************************************************************************)
IsLeap(y) == (y % 4 = 0) /\ ((y % 100 # 0) \/ (y % 400 = 0))

DaysInMonth(y, m) ==
    IF m = 2 THEN (IF IsLeap(y) THEN 29 ELSE 28)
    ELSE IF m \in {4, 6, 9, 11} THEN 30
    ELSE 31

\* date(y, m, d) is constructible.
ValidDate(y, m, d) ==
    /\ y \in 1..9999
    /\ m \in 1..12
    /\ d \in 1..DaysInMonth(y, m)

MkDate(y, m, d) == [year |-> y, month |-> m, day |-> d]

\* Days before January 1st of year y.
DaysBeforeYear(y) ==
    365 * (y - 1) + ((y - 1) \div 4) - ((y - 1) \div 100) + ((y - 1) \div 400)

\* Days of year y before the first day of month m.
DaysBeforeMonth(y, m) ==
    <<0, 31, 59, 90, 120, 151, 181, 212, 243, 273, 304, 334>>[m]
        + (IF m > 2 /\ IsLeap(y) THEN 1 ELSE 0)

\* date.toordinal()
ToOrdinal(d) == DaysBeforeYear(d.year) + DaysBeforeMonth(d.year, d.month) + d.day

\* date.fromordinal(n)
FromOrdinal(n) ==
    LET y == CHOOSE yy \in (n \div 366)..((n \div 365) + 1) :
                 DaysBeforeYear(yy) < n /\ n <= DaysBeforeYear(yy + 1)
        r == n - DaysBeforeYear(y)
        m == CHOOSE mm \in 1..12 :
                 DaysBeforeMonth(y, mm) < r
                 /\ r <= DaysBeforeMonth(y, mm) + DaysInMonth(y, mm)
    IN  MkDate(y, m, r - DaysBeforeMonth(y, m))

\* date.weekday(): Monday is 0, Sunday is 6.
Weekday(d) == (ToOrdinal(d) + 6) % 7

\* d + timedelta(n)
AddDays(d, n) == FromOrdinal(ToOrdinal(d) + n)

\* (a - b).days
DaysBetween(a, b) == ToOrdinal(a) - ToOrdinal(b)

\* a < b on dates
DateLess(a, b) == ToOrdinal(a) < ToOrdinal(b)

\* d.replace(year=y): the date, or ValueError when d is 29 February and y is
\* not a leap year.
ReplaceYear(d, y) ==
    IF ValidDate(y, d.month, d.day)
    THEN [exc |-> NoExc, date |-> MkDate(y, d.month, d.day)]
    ELSE [exc |-> "ValueError", date |-> d]

Pad2(n) == <<DigitChar(n \div 10), DigitChar(n % 10)>>

Pad4(n) ==
    <<DigitChar(n \div 1000), DigitChar((n \div 100) % 10),
      DigitChar((n \div 10) % 10), DigitChar(n % 10)>>

\* d.strftime("%Y.%m.%d")
FormatDate(d) == Pad4(d.year) \o <<".">> \o Pad2(d.month) \o <<".">> \o Pad2(d.day)

(***************************************************************************)
(* The literal parts of the strings the program builds.                    *)
(***************************************************************************)
\* "Contact name: "
CONTACT_NAME ==
    <<"C", "o", "n", "t", "a", "c", "t", " ", "n", "a", "m", "e", ":", " ">>

\* ", phone: "
COMMA_PHONE ==
    <<",", " ", "p", "h", "o", "n", "e", ":", " ">>

\* "User "
USER ==
    <<"U", "s", "e", "r", " ">>

\* " has a birthday this week! "
HAS_BIRTHDAY ==
    <<" ", "h", "a", "s", " ", "a", " ", "b", "i", "r", "t", "h", "d", "a", "y", " ", "t", "h", "i", "s", " ", "w", "e", "e", "k", "!", " ">>

(***************************************************************************)
(* Field, Phone, Birthday                                                  *)
(***************************************************************************)
\* The length \d{10} asks for.
PhoneDigits == 10

\* re.match(r'^\d{10}$', value) is not None.  "$" matches at the end of the
\* string and also just before a newline that ends the string.
validate_phone(value) ==
    /\ Len(value) \in {PhoneDigits, PhoneDigits + 1}
    /\ \A i \in 1..PhoneDigits : IsDigit(value[i])
    /\ Len(value) = PhoneDigits + 1 => value[PhoneDigits + 1] = "\n"

\* Phone(value)
Phone(value) ==
    IF validate_phone(value)
    THEN [exc |-> NoExc, msg |-> "", value |-> value]
    ELSE [exc |-> "ValueError", msg |-> "Invalid phone number format.", value |-> value]

\* The positions of "." in s.
Dots(s) == {i \in 1..Len(s) : s[i] = "."}

\* strptime's %d: 3[0-1]|[1-2]\d|0[1-9]|[1-9]| [1-9]
DayToken(t) ==
    \/ Len(t) = 2 /\ t[1] = "3" /\ t[2] \in {"0", "1"}
    \/ Len(t) = 2 /\ t[1] \in {"1", "2"} /\ IsDigit(t[2])
    \/ Len(t) = 2 /\ t[1] \in {"0", " "} /\ IsDigit(t[2]) /\ t[2] # "0"
    \/ Len(t) = 1 /\ IsDigit(t[1]) /\ t[1] # "0"

\* strptime's %m: 1[0-2]|0[1-9]|[1-9]
MonthToken(t) ==
    \/ Len(t) = 2 /\ t[1] = "1" /\ t[2] \in {"0", "1", "2"}
    \/ Len(t) = 2 /\ t[1] = "0" /\ IsDigit(t[2]) /\ t[2] # "0"
    \/ Len(t) = 1 /\ IsDigit(t[1]) /\ t[1] # "0"

\* strptime's %Y: \d\d\d\d
YearToken(t) == Len(t) = 4 /\ AllDigits(t)

\* int() of a %d token, which may start with a space.
DayValue(t) == IF t[1] = " " THEN IntOf(Tail(t)) ELSE IntOf(t)

\* datetime.strptime(value, "%d.%m.%Y").date(): the date, or ValueError when
\* the string does not match the format, has text left over, or names no
\* calendar date.
strptime(value) ==
    LET dots == Dots(value)
        bad  == [exc |-> "ValueError", date |-> MkDate(1, 1, 1)]
    IN  IF Cardinality(dots) # 2 THEN bad
        ELSE
            LET i  == CHOOSE k \in dots : \A j \in dots : k <= j
                j  == CHOOSE k \in dots : k # i
                dd == SubSeq(value, 1, i - 1)
                mm == SubSeq(value, i + 1, j - 1)
                yy == SubSeq(value, j + 1, Len(value))
            IN  IF ~(DayToken(dd) /\ MonthToken(mm) /\ YearToken(yy)) THEN bad
                ELSE IF ~ValidDate(IntOf(yy), IntOf(mm), DayValue(dd)) THEN bad
                ELSE [exc |-> NoExc, date |-> MkDate(IntOf(yy), IntOf(mm), DayValue(dd))]

\* Birthday(value)
Birthday(value) ==
    LET p == strptime(value)
    IN  IF p.exc = NoExc
        THEN [exc |-> NoExc, msg |-> "", value |-> value, date |-> p.date]
        ELSE [exc |-> "ValueError", msg |-> "Invalid date format. Use DD.MM.YYYY",
              value |-> value, date |-> p.date]

(***************************************************************************)
(* Record.  birthday is <<>> for None, else <<[value, date]>>.              *)
(***************************************************************************)
\* Record(name)
Record(name) == [name |-> name, phones |-> <<>>, birthday |-> <<>>]

\* Record.add_phone with the slip of putting the new phone first.
Record_add_phone_Prepend(rec, phone) ==
    LET p == Phone(phone)
    IN  IF p.exc # NoExc
        THEN [exc |-> p.exc, msg |-> p.msg, rec |-> rec]
        ELSE [exc |-> NoExc, msg |-> "", rec |-> [rec EXCEPT !.phones = <<p.value>> \o @]]

\* Record.add_phone
Record_add_phone(rec, phone) ==
    LET p == Phone(phone)
    IN  IF p.exc # NoExc
        THEN [exc |-> p.exc, msg |-> p.msg, rec |-> rec]
        ELSE [exc |-> NoExc, msg |-> "", rec |-> [rec EXCEPT !.phones = Append(@, p.value)]]

\* s without its element at index i.
RemoveAt(s, i) == SubSeq(s, 1, i - 1) \o SubSeq(s, i + 1, Len(s))

\* Record.remove_phone with the slip of taking out the last match.
Record_remove_phone_Last(rec, phone) ==
    LET hits == {i \in 1..Len(rec.phones) : rec.phones[i] = phone}
    IN  IF hits = {}
        THEN [exc |-> "ValueError", msg |-> "Phone number not found.", rec |-> rec]
        ELSE
            LET lst == CHOOSE i \in hits : \A j \in hits : i >= j
            IN  [exc |-> NoExc, msg |-> "",
                 rec |-> [rec EXCEPT !.phones = RemoveAt(@, lst)]]

\* Record.remove_phone
Record_remove_phone(rec, phone) ==
    LET hits == {i \in 1..Len(rec.phones) : rec.phones[i] = phone}
    IN  IF hits = {}
        THEN [exc |-> "ValueError", msg |-> "Phone number not found.", rec |-> rec]
        ELSE
            LET first == CHOOSE i \in hits : \A j \in hits : i <= j
            IN  [exc |-> NoExc, msg |-> "",
                 rec |-> [rec EXCEPT !.phones = RemoveAt(@, first)]]

\* Record.edit_phone with the slip of replacing the last phone (index -1).
Record_edit_phone_Last(rec, new_phone) ==
    IF Len(rec.phones) > 0
    THEN
        LET p == Phone(new_phone)
        IN  IF p.exc # NoExc
            THEN [exc |-> p.exc, msg |-> p.msg, rec |-> rec]
            ELSE [exc |-> NoExc, msg |-> "",
                  rec |-> [rec EXCEPT !.phones[Len(rec.phones)] = p.value]]
    ELSE Record_add_phone(rec, new_phone)

\* Record.edit_phone
Record_edit_phone(rec, new_phone) ==
    IF Len(rec.phones) > 0
    THEN
        LET p == Phone(new_phone)
        IN  IF p.exc # NoExc
            THEN [exc |-> p.exc, msg |-> p.msg, rec |-> rec]
            ELSE [exc |-> NoExc, msg |-> "", rec |-> [rec EXCEPT !.phones[1] = p.value]]
    ELSE Record_add_phone(rec, new_phone)

\* Record.find_phone
Record_find_phone(rec, phone) ==
    IF \E i \in 1..Len(rec.phones) : rec.phones[i] = phone
    THEN [exc |-> NoExc, msg |-> "", value |-> phone]
    ELSE [exc |-> "ValueError", msg |-> "Phone number not found.", value |-> phone]

\* Record.add_birthday
Record_add_birthday(rec, birthday) ==
    LET b == Birthday(birthday)
    IN  IF b.exc # NoExc
        THEN [exc |-> b.exc, msg |-> b.msg, rec |-> rec]
        ELSE [exc |-> NoExc, msg |-> "",
              rec |-> [rec EXCEPT !.birthday = <<[value |-> b.value, date |-> b.date]>>]]

\* Record.__str__
Record_str(rec) ==
    CONTACT_NAME \o rec.name \o COMMA_PHONE \o JoinWith(<<";", " ">>, rec.phones)

(***************************************************************************)
(* AddressBook.  data is the sequence of the dict's values in insertion    *)
(* order; the keys are the records' names.                                 *)
(***************************************************************************)
\* AddressBook()
AddressBook == <<>>

\* The index of name's record in data, or 0 (None).
AddressBook_find(data, name) ==
    IF \E i \in 1..Len(data) : data[i].name = name
    THEN CHOOSE i \in 1..Len(data) : data[i].name = name
    ELSE 0

\* AddressBook.add_record: a new key goes last, an old key keeps its place.
AddressBook_add_record(data, rec) ==
    LET i == AddressBook_find(data, rec.name)
    IN  IF i = 0 THEN Append(data, rec) ELSE [data EXCEPT ![i] = rec]

\* find_next_weekday with the slip of "days_ahead < 0" for "days_ahead <= 0".
find_next_weekday_Less(d, weekday) ==
    LET days_ahead == weekday - Weekday(d)
    IN  AddDays(d, IF days_ahead < 0 THEN days_ahead + 7 ELSE days_ahead)

\* AddressBook.find_next_weekday
find_next_weekday(d, weekday) ==
    LET days_ahead == weekday - Weekday(d)
    IN  AddDays(d, IF days_ahead <= 0 THEN days_ahead + 7 ELSE days_ahead)

\* One notice of get_upcoming_birthdays.
Notice(name, d) == USER \o name \o HAS_BIRTHDAY \o FormatDate(d)

RECURSIVE UpcomingFrom(_, _, _, _, _)
\* The loop of get_upcoming_birthdays from the i-th record on, with the
\* notices found so far.
UpcomingFrom(data, i, today, days, acc) ==
    IF i > Len(data) THEN [exc |-> NoExc, lines |-> acc]
    ELSE IF data[i].birthday = <<>> THEN UpcomingFrom(data, i + 1, today, days, acc)
    ELSE
        LET this == ReplaceYear(data[i].birthday[1].date, today.year)
        IN  IF this.exc # NoExc THEN [exc |-> this.exc, lines |-> <<>>]
            ELSE
                LET next == IF DateLess(this.date, today)
                            THEN ReplaceYear(this.date, today.year + 1)
                            ELSE this
                IN  IF next.exc # NoExc THEN [exc |-> next.exc, lines |-> <<>>]
                    ELSE IF 0 <= DaysBetween(next.date, today)
                            /\ DaysBetween(next.date, today) <= days
                    THEN
                        LET shown == IF Weekday(next.date) >= 5
                                     THEN find_next_weekday(next.date, 0)
                                     ELSE next.date
                        IN  UpcomingFrom(data, i + 1, today, days,
                                         Append(acc, Notice(data[i].name, shown)))
                    ELSE UpcomingFrom(data, i + 1, today, days, acc)

\* AddressBook.get_upcoming_birthdays, with datetime.today().date() = today.
get_upcoming_birthdays(data, today, days) == UpcomingFrom(data, 1, today, days, <<>>)

(***************************************************************************)
(* Persistence.  The file phonebook.pkl is absent, empty, holds bytes that *)
(* are no pickle ("garbage"), or holds the snapshot of a book.             *)
(***************************************************************************)
\* save_data: the file after pickle.dump(book, f).
save_data(data) == [kind |-> "snapshot", data |-> data]

\* open(filename, "rb") and pickle.load(f): what they return or raise.
pickle_load(f) ==
    IF f.kind = "absent" THEN [exc |-> "FileNotFoundError", data |-> AddressBook]
    ELSE IF f.kind = "empty" THEN [exc |-> "EOFError", data |-> AddressBook]
    ELSE IF f.kind = "garbage" THEN [exc |-> "UnpicklingError", data |-> AddressBook]
    ELSE [exc |-> NoExc, data |-> f.data]

\* load_data: except (FileNotFoundError, EOFError) gives AddressBook(); any
\* other exception of pickle.load goes on to the caller.
load_data(f) ==
    LET r == pickle_load(f)
    IN  IF r.exc \in {"FileNotFoundError", "EOFError"}
        THEN [exc |-> NoExc, data |-> AddressBook]
        ELSE r

(***************************************************************************)
(* The command handlers.  A handler's result is the book it leaves, the    *)
(* exception it raised (exc), and what it returned: a fixed message (msg)  *)
(* or a computed string (text = <<string>>).                               *)
(***************************************************************************)
Returned(data, msg) == [data |-> data, exc |-> NoExc, msg |-> msg, text |-> <<>>]

ReturnedText(data, str) == [data |-> data, exc |-> NoExc, msg |-> "", text |-> <<str>>]

Raised(data, exc, msg) == [data |-> data, exc |-> exc, msg |-> msg, text |-> <<>>]

\* input_error with the clause "except KeyError" left out.
input_error_NoKeyError(r) ==
    IF r.exc = "ValueError" THEN Returned(r.data, r.msg)
    ELSE IF r.exc = "IndexError" THEN Returned(r.data, "Enter the argument for the command.")
    ELSE r

\* The decorator input_error: what inner returns for the result of func.
input_error(r) ==
    IF r.exc = "KeyError" THEN Returned(r.data, "Enter user name.")
    ELSE IF r.exc = "ValueError" THEN Returned(r.data, r.msg)
    ELSE IF r.exc = "IndexError" THEN Returned(r.data, "Enter the argument for the command.")
    ELSE r

\* The body of add_contact.
add_contact_body(args, data) ==
    IF Len(args) < 2 THEN Returned(data, "Please provide both name and phone number.")
    ELSE
        LET name    == args[1]
            phone   == args[2]
            found   == AddressBook_find(data, name)
            data1   == IF found = 0 THEN AddressBook_add_record(data, Record(name)) ELSE data
            message == IF found = 0 THEN "Contact added." ELSE "Contact updated."
            i       == AddressBook_find(data1, name)
        IN  IF Len(phone) > 0
            THEN
                LET r == Record_add_phone(data1[i], phone)
                IN  IF r.exc # NoExc THEN Raised(data1, r.exc, r.msg)
                    ELSE Returned([data1 EXCEPT ![i] = r.rec], message)
            ELSE Returned(data1, message)

add_contact(args, data) == input_error(add_contact_body(args, data))

\* The body of change_contact.
change_contact_body(args, data) ==
    IF Len(args) < 2 THEN Returned(data, "Please provide both name and new phone number.")
    ELSE
        LET i == AddressBook_find(data, args[1])
        IN  IF i # 0
            THEN
                LET r == Record_edit_phone(data[i], args[2])
                IN  IF r.exc # NoExc THEN Raised(data, r.exc, r.msg)
                    ELSE Returned([data EXCEPT ![i] = r.rec], "Contact updated.")
            ELSE Raised(data, "KeyError", "")

change_contact(args, data) == input_error(change_contact_body(args, data))

\* (name,) = args, for args that are not empty.
UnpackOne(args) ==
    IF Len(args) = 1 THEN [exc |-> NoExc, msg |-> ""]
    ELSE [exc |-> "ValueError", msg |-> "too many values to unpack (expected 1)"]

\* The body of show_phone.
show_phone_body(args, data) ==
    IF Len(args) < 1 THEN Returned(data, "Please provide the name.")
    ELSE IF UnpackOne(args).exc # NoExc
    THEN Raised(data, UnpackOne(args).exc, UnpackOne(args).msg)
    ELSE
        LET i == AddressBook_find(data, args[1])
        IN  IF i # 0 THEN ReturnedText(data, JoinWith(<<";", " ">>, data[i].phones))
            ELSE Raised(data, "KeyError", "")

show_phone(args, data) == input_error(show_phone_body(args, data))

\* show_all
show_all(data) ==
    ReturnedText(data, JoinWith(<<"\n">>, [i \in 1..Len(data) |-> Record_str(data[i])]))

\* The body of add_birthday.
add_birthday_body(args, data) ==
    IF Len(args) < 2 THEN Returned(data, "Please provide both name and birthday.")
    ELSE
        LET i == AddressBook_find(data, args[1])
        IN  IF i # 0
            THEN
                LET r == Record_add_birthday(data[i], args[2])
                IN  IF r.exc # NoExc THEN Raised(data, r.exc, r.msg)
                    ELSE Returned([data EXCEPT ![i] = r.rec], "Birthday added.")
            ELSE Raised(data, "KeyError", "")

add_birthday(args, data) == input_error(add_birthday_body(args, data))

\* The body of show_birthday.
show_birthday_body(args, data) ==
    IF Len(args) < 1 THEN Returned(data, "Please provide the name.")
    ELSE IF UnpackOne(args).exc # NoExc
    THEN Raised(data, UnpackOne(args).exc, UnpackOne(args).msg)
    ELSE
        LET i == AddressBook_find(data, args[1])
        IN  IF i # 0
            THEN IF data[i].birthday # <<>>
                 THEN ReturnedText(data, data[i].birthday[1].value)
                 ELSE Returned(data, "Birthday not set.")
            ELSE Raised(data, "KeyError", "")

show_birthday(args, data) == input_error(show_birthday_body(args, data))

\* The days main passes to get_upcoming_birthdays (its default).
DefaultDays == 7

\* main's "birthdays" branch.
birthdays(today, data) ==
    LET r == get_upcoming_birthdays(data, today, DefaultDays)
    IN  IF r.exc # NoExc THEN Raised(data, r.exc, "day is out of range for month")
        ELSE IF Len(r.lines) = 0 THEN Returned(data, "There are no upcoming birthdays.")
        ELSE [data |-> data, exc |-> NoExc, msg |-> "", text |-> r.lines]

(***************************************************************************)
(* The strings the environment passes in.                                  *)
(***************************************************************************)
\* 'Alice'
Alice == <<"A", "l", "i", "c", "e">>

\* 'Bob'
Bob == <<"B", "o", "b">>

\* '0123456789'
P1 == <<"0", "1", "2", "3", "4", "5", "6", "7", "8", "9">>

\* '9876543210'
P2 == <<"9", "8", "7", "6", "5", "4", "3", "2", "1", "0">>

\* '0123456789\n'
P1_NEWLINE == <<"0", "1", "2", "3", "4", "5", "6", "7", "8", "9", "\n">>

\* '123'
P_SHORT == <<"1", "2", "3">>

\* '01234abcde'
P_LETTER == <<"0", "1", "2", "3", "4", "a", "b", "c", "d", "e">>

\* '01234567890'
P_LONG == <<"0", "1", "2", "3", "4", "5", "6", "7", "8", "9", "0">>

\* '0123 56789'
P_SPACE == <<"0", "1", "2", "3", " ", "5", "6", "7", "8", "9">>

\* '29.02.2000'
B_FEB29 == <<"2", "9", ".", "0", "2", ".", "2", "0", "0", "0">>

\* '15.03.1990'
B_MAR15 == <<"1", "5", ".", "0", "3", ".", "1", "9", "9", "0">>

\* '01.01.2001'
B_JAN01 == <<"0", "1", ".", "0", "1", ".", "2", "0", "0", "1">>

\* '16.03.1990'
B_MAR16 == <<"1", "6", ".", "0", "3", ".", "1", "9", "9", "0">>

\* '5.3.1990': the day and the month without their zeros
B_UNPADDED == <<"5", ".", "3", ".", "1", "9", "9", "0">>

\* '31.02.1990'
B_FEB31 == <<"3", "1", ".", "0", "2", ".", "1", "9", "9", "0">>

\* '1990-03-15'
B_ISO == <<"1", "9", "9", "0", "-", "0", "3", "-", "1", "5">>

\* ''
EMPTY == <<>>

Names == {Alice, Bob}

\* The dates of the years in Y.
DatesOf(Y) ==
    {MkDate(y, m, d) : <<y, m, d>> \in
        {t \in Y \X (1..12) \X (1..31) : ValidDate(t[1], t[2], t[3])}}

(***************************************************************************)
(* The state.  pc is main's place: "start" before load_data, "loop" at     *)
(* the prompt, "closed" after exit, "crashed" after an exception left      *)
(* main.  last is the latest call and out what came of it.                 *)
(***************************************************************************)
NoCall == [op |-> "", args |-> <<>>, today |-> <<>>, n |-> 0]

Call(op, args) == [op |-> op, args |-> args, today |-> <<>>, n |-> 0]

CallAt(op, today, n) == [op |-> op, args |-> <<>>, today |-> <<today>>, n |-> n]

NoOut == [kind |-> "none", exc |-> NoExc, msg |-> "", text |-> <<>>, date |-> <<>>]

\* print(...) of what a handler returned.
Printed(r) == [kind |-> "printed", exc |-> NoExc, msg |-> r.msg, text |-> r.text, date |-> <<>>]

\* The traceback of an exception nothing caught.
Escaped(exc, msg) == [kind |-> "escaped", exc |-> exc, msg |-> msg, text |-> <<>>, date |-> <<>>]

\* What a direct call of a method gave its caller.
Gave(r) ==
    [kind |-> IF r.exc = NoExc THEN "returned" ELSE "raised",
     exc |-> r.exc, msg |-> r.msg, text |-> <<>>, date |-> <<>>]

Files == {[kind |-> k, data |-> AddressBook] : k \in {"absent", "empty", "garbage"}}

InitWith(F) ==
    /\ pc = "start"
    /\ file \in F
    /\ book = AddressBook
    /\ last = NoCall
    /\ out = NoOut

RECURSIVE TotalPhones(_)
\* The number of phones in the book.
TotalPhones(data) ==
    IF Len(data) = 0 THEN 0 ELSE Len(data[1].phones) + TotalPhones(Tail(data))

\* The book holds fewer than MaxPhones phones.
Room(data) == TotalPhones(data) < MaxPhones

(***************************************************************************)
(* main                                                                    *)
(***************************************************************************)
\* book = load_data() and the welcome line.
Load ==
    /\ pc = "start"
    /\ LET r == load_data(file)
       IN  /\ book' = r.data
           /\ IF r.exc = NoExc
              THEN /\ pc' = "loop"
                   /\ out' = Printed([msg |-> "Welcome, USER! This is your personal bot!",
                                      text |-> <<>>])
              ELSE /\ pc' = "crashed"
                   /\ out' = Escaped(r.exc, "")
    /\ last' = Call("load", <<>>)
    /\ UNCHANGED file

\* One turn of the loop whose branch computes r: the branch prints, or its
\* exception leaves main.
Turn(call, r) ==
    /\ pc = "loop"
    /\ book' = r.data
    /\ last' = call
    /\ IF r.exc = NoExc
       THEN pc' = "loop" /\ out' = Printed(r)
       ELSE pc' = "crashed" /\ out' = Escaped(r.exc, r.msg)
    /\ UNCHANGED file

CmdAdd(args) ==
    /\ Room(book)
    /\ Turn(Call("add", args), add_contact(args, book))

CmdChange(args) == Turn(Call("change", args), change_contact(args, book))

CmdPhone(args) == Turn(Call("phone", args), show_phone(args, book))

CmdAll == Turn(Call("all", <<>>), show_all(book))

CmdAddBirthday(args) == Turn(Call("add-birthday", args), add_birthday(args, book))

CmdShowBirthday(args) == Turn(Call("show-birthday", args), show_birthday(args, book))

CmdBirthdays(today) == Turn(CallAt("birthdays", today, DefaultDays), birthdays(today, book))

CmdHello ==
    Turn(Call("hello", <<>>),
         Returned(book, "Hello there!\n*That was Star Wars Reference ^_^*\nHow can I help, partner?"))

CmdInvalid == Turn(Call("?", <<>>), Returned(book, "Invalid command."))

\* "close" or "exit": the farewell, save_data(book), break.
Exit ==
    /\ pc = "loop"
    /\ file' = save_data(book)
    /\ pc' = "closed"
    /\ last' = Call("exit", <<>>)
    /\ out' = Printed([msg |-> "You'll be back, right? :C", text |-> <<>>])
    /\ UNCHANGED book

\* The program is started again; the file is what the last run left.
Launch ==
    /\ pc \in {"closed", "crashed"}
    /\ pc' = "start"
    /\ book' = AddressBook
    /\ last' = NoCall
    /\ out' = NoOut
    /\ UNCHANGED file

(***************************************************************************)
(* Direct calls of the methods of Record and AddressBook on the live book. *)
(***************************************************************************)
\* A call of a Record method on the record of name, with result r.
OnRecord(call, name, r) ==
    /\ pc = "loop"
    /\ AddressBook_find(book, name) # 0
    /\ book' = [book EXCEPT ![AddressBook_find(book, name)] = r.rec]
    /\ last' = call
    /\ out' = Gave(r)
    /\ UNCHANGED <<pc, file>>

TheRecord(name) == book[AddressBook_find(book, name)]

CallAddPhone(name, phone) ==
    /\ AddressBook_find(book, name) # 0
    /\ Room(book)
    /\ OnRecord(Call("add_phone", <<name, phone>>), name,
                Record_add_phone(TheRecord(name), phone))

CallRemovePhone(name, phone) ==
    /\ AddressBook_find(book, name) # 0
    /\ OnRecord(Call("remove_phone", <<name, phone>>), name,
                Record_remove_phone(TheRecord(name), phone))

CallEditPhone(name, phone) ==
    /\ AddressBook_find(book, name) # 0
    /\ OnRecord(Call("edit_phone", <<name, phone>>), name,
                Record_edit_phone(TheRecord(name), phone))

CallFindPhone(name, phone) ==
    /\ AddressBook_find(book, name) # 0
    /\ OnRecord(Call("find_phone", <<name, phone>>), name,
                [exc |-> Record_find_phone(TheRecord(name), phone).exc,
                 msg |-> Record_find_phone(TheRecord(name), phone).msg,
                 rec |-> TheRecord(name)])

CallFindNextWeekday(d, weekday) ==
    /\ pc = "loop"
    /\ last' = CallAt("find_next_weekday", d, weekday)
    /\ out' = [kind |-> "returned", exc |-> NoExc, msg |-> "", text |-> <<>>,
               date |-> <<find_next_weekday(d, weekday)>>]
    /\ UNCHANGED <<pc, file, book>>

CallUpcoming(today, days) ==
    /\ pc = "loop"
    /\ last' = CallAt("get_upcoming_birthdays", today, days)
    /\ LET r == get_upcoming_birthdays(book, today, days)
       IN  out' = [kind |-> IF r.exc = NoExc THEN "returned" ELSE "raised",
                   exc |-> r.exc, msg |-> "", text |-> r.lines, date |-> <<>>]
    /\ UNCHANGED <<pc, file, book>>

(***************************************************************************)
(* Spec: a session of commands.                                            *)
(***************************************************************************)
Phones == {P1, P2, P_SHORT}

BirthdayStrings == {B_FEB29, B_FEB31}

Todays == {MkDate(2023, 3, 10), MkDate(2024, 2, 25)}

\* No file yet: the first run of the program.
Init == InitWith({f \in Files : f.kind = "absent"})

Next ==
    \/ Load
    \/ \E args \in {<<Alice>>} \cup {<<n, v>> : n \in Names, v \in Phones} : CmdAdd(args)
    \/ \E args \in {<<Alice>>} \cup {<<n, v>> : n \in Names, v \in {P2, P_SHORT}} :
           CmdChange(args)
    \/ \E args \in {<<>>, <<Alice, Bob>>} \cup {<<n>> : n \in Names} : CmdPhone(args)
    \/ CmdAll
    \/ \E args \in {<<Alice>>} \cup {<<n, v>> : n \in Names, v \in BirthdayStrings} :
           CmdAddBirthday(args)
    \/ \E args \in {<<>>, <<Alice, Bob>>} \cup {<<n>> : n \in Names} : CmdShowBirthday(args)
    \/ \E today \in Todays : CmdBirthdays(today)
    \/ CmdHello
    \/ CmdInvalid
    \/ Exit

Spec == Init /\ [][Next]_vars

(***************************************************************************)
(* SpecRecord: the methods of one Record called directly, next to the two  *)
(* commands that add and edit phones, with strings of every shape.         *)
(***************************************************************************)
PhoneStrings == {P1, P2, P1_NEWLINE, P_SHORT, P_LETTER, P_LONG, P_SPACE, EMPTY}

NextRecord ==
    \/ Load
    \/ \E v \in PhoneStrings : CmdAdd(<<Alice, v>>)
    \/ \E v \in PhoneStrings : CmdChange(<<Alice, v>>)
    \/ \E v \in PhoneStrings : CallAddPhone(Alice, v)
    \/ \E v \in PhoneStrings : CallEditPhone(Alice, v)
    \/ \E v \in PhoneStrings : CallRemovePhone(Alice, v)
    \/ \E v \in PhoneStrings : CallFindPhone(Alice, v)

SpecRecord == Init /\ [][NextRecord]_vars

(***************************************************************************)
(* SpecCal: the birthday window over every "today" of two years, one of    *)
(* them a leap year.  Each contact is added once.  The three calls that    *)
(* only read the book end a run: they change nothing, so every book a      *)
(* longer run could ask about is asked about here.  find_next_weekday      *)
(* reads no state at all and is called on the empty book only.             *)
(***************************************************************************)
CalBirthdays == {B_FEB29, B_MAR16, B_JAN01}

CalDates == DatesOf({2023, 2024})

Horizons == {0, 10}

Ready == last.op \notin {"birthdays", "get_upcoming_birthdays", "find_next_weekday"}

NextCal ==
    \/ Load
    \/ Ready /\ \E n \in Names : AddressBook_find(book, n) = 0 /\ CmdAdd(<<n, P1>>)
    \/ Ready /\ \E n \in Names, v \in CalBirthdays : CmdAddBirthday(<<n, v>>)
    \/ Ready /\ \E today \in CalDates : CmdBirthdays(today)
    \/ Ready /\ \E today \in CalDates, days \in Horizons : CallUpcoming(today, days)
    \/ Ready /\ book = AddressBook
             /\ \E d \in CalDates, weekday \in 0..6 : CallFindNextWeekday(d, weekday)

SpecCal == Init /\ [][NextCal]_vars

(***************************************************************************)
(* SpecLoad: the program run again and again over the file it leaves, from *)
(* a file that is absent, empty or no pickle at all.                       *)
(***************************************************************************)
InitLoad == InitWith(Files)

NextLoad ==
    \/ Load
    \/ \E v \in {P1, P2} : CmdAdd(<<Alice, v>>)
    \/ \E v \in {B_MAR15, B_UNPADDED, B_ISO} : CmdAddBirthday(<<Alice, v>>)
    \/ Exit
    \/ Launch

SpecLoad == InitLoad /\ [][NextLoad]_vars

(***************************************************************************)
(* What the properties speak of.                                           *)
(***************************************************************************)
\* s is exactly ten decimal digits.
IsTenDigits(s) ==
    /\ Len(s) = 10
    /\ \A i \in 1..10 : s[i] \in {"0", "1", "2", "3", "4", "5", "6", "7", "8", "9"}

Commands == {"add", "change", "phone", "all", "add-birthday", "show-birthday",
             "birthdays", "hello", "?"}

\* The first date on or after today with the day and month of d.
NextOccurrence(d, today) ==
    LET y == CHOOSE yy \in today.year..(today.year + 8) :
                 /\ ValidDate(yy, d.month, d.day)
                 /\ ToOrdinal(MkDate(yy, d.month, d.day)) >= ToOrdinal(today)
                 /\ \A z \in today.year..(yy - 1) :
                        ~(/\ ValidDate(z, d.month, d.day)
                          /\ ToOrdinal(MkDate(z, d.month, d.day)) >= ToOrdinal(today))
    IN  MkDate(y, d.month, d.day)

\* The record has a birthday whose next occurrence is within days of today.
InWindow(rec, today, days) ==
    IF rec.birthday = <<>> THEN FALSE
    ELSE ToOrdinal(NextOccurrence(rec.birthday[1].date, today)) - ToOrdinal(today)
             \in 0..days

\* The names of the records in the window, in the book's order.
NamesInWindow(data, today, days) ==
    LET Due(rec) == InWindow(rec, today, days)
        due == SelectSeq(data, Due)
    IN  [k \in 1..Len(due) |-> due[k].name]

\* The name and the date a notice prints.
NoticeName(line) == SubSeq(line, Len(USER) + 1, Len(line) - Len(HAS_BIRTHDAY) - 10)

NoticeDate(line) == SubSeq(line, Len(line) - 9, Len(line))

AsksBirthdays == last.op \in {"birthdays", "get_upcoming_birthdays"}

\* C1: no error escapes a command: every command ends with something printed
\* and the session at its prompt.
C1_NoErrorEscapes ==
    last.op \in Commands => (out.kind = "printed" /\ pc = "loop")

\* C2: load never fails its caller, and gives an empty book for a file that is
\* absent, empty or corrupt; only a snapshot gives a book that is not empty.
C2_LoadNeverFails ==
    last.op = "load" =>
        /\ pc = "loop"
        /\ out.kind = "printed"
        /\ file.kind \in {"absent", "empty", "garbage"} => book = AddressBook
        /\ book # AddressBook => file.kind = "snapshot"

\* C3: every phone stored in every record is exactly ten decimal digits, and a
\* call that hands any other string to a record answers "Invalid phone number
\* format." (add-contact hands an empty string to no record).
C3_PhonesAreTenDigits ==
    /\ \A i \in 1..Len(book) : \A k \in 1..Len(book[i].phones) :
           IsTenDigits(book[i].phones[k])
    /\ (/\ last.op \in {"add", "add_phone", "edit_phone"}
        /\ ~IsTenDigits(last.args[2])
        /\ last.op = "add" => Len(last.args[2]) > 0)
           => out.msg = "Invalid phone number format."

\* C4: the notices are those of the records, in the book's order, that have a
\* birthday whose first occurrence on or after today is within the horizon:
\* one notice each, none for any other record.
C4_NoticeIffInWindow ==
    AsksBirthdays =>
        /\ out.kind \in {"printed", "returned"}
        /\ [k \in 1..Len(out.text) |-> NoticeName(out.text[k])]
               = NamesInWindow(book, last.today[1], last.n)

\* C5: the date a notice prints is the occurrence itself on Monday to Friday,
\* the Monday 2 days after a Saturday and 1 day after a Sunday, so it is never
\* a Saturday or Sunday and lies within horizon + 2 days of today; and
\* find_next_weekday returns the date 1 to 7 days ahead that has the weekday
\* asked for, 7 days ahead when the date has that weekday already.
C5_PrintedDateIsWeekday ==
    /\ AsksBirthdays =>
           \A k \in 1..Len(out.text) :
               LET i     == AddressBook_find(book, NoticeName(out.text[k]))
                   today == ToOrdinal(last.today[1])
                   occ   == NextOccurrence(book[i].birthday[1].date, last.today[1])
                   shift == IF Weekday(occ) = 5 THEN 2
                            ELSE IF Weekday(occ) = 6 THEN 1 ELSE 0
               IN  /\ i # 0
                   /\ book[i].birthday # <<>>
                   /\ \E o \in today..(today + last.n + 2) :
                          /\ NoticeDate(out.text[k]) = FormatDate(FromOrdinal(o))
                          /\ (o + 6) % 7 \notin {5, 6}
                          /\ o = ToOrdinal(occ) + shift
    /\ last.op = "find_next_weekday" =>
           LET ahead == ToOrdinal(out.date[1]) - ToOrdinal(last.today[1])
           IN  /\ ahead \in 1..7
               /\ Weekday(out.date[1]) = last.n
               /\ Weekday(last.today[1]) = last.n => ahead = 7

\* A Saturday birthday, 16.03.2024, asked for on Thursday 14.03.2024, is
\* printed as Monday 18.03.2024.
C5_Witness ==
    /\ last.op = "birthdays"
    /\ last.today = <<MkDate(2024, 3, 14)>>
    /\ out.text = <<USER \o Alice \o HAS_BIRTHDAY
                    \o <<"2", "0", "2", "4", ".", "0", "3", ".", "1", "8">> >>

\* The phones joined by "; ": each phone in its place, "; " between two.
IsJoined(s, phones) ==
    IF Len(phones) = 0 THEN s = <<>>
    ELSE /\ Len(s) = 12 * Len(phones) - 2
         /\ \A k \in 1..Len(phones) :
                SubSeq(s, 12 * (k - 1) + 1, 12 * (k - 1) + 10) = phones[k]
         /\ \A k \in 1..(Len(phones) - 1) : s[12 * k - 1] = ";" /\ s[12 * k] = " "

\* C6: add-contact with a valid phone answers "Contact added." exactly when
\* the name was not in the book and "Contact updated." otherwise, and puts the
\* phone at the end of that contact's list, all else as it was; show-phones
\* prints the contact's phones in that order, joined by "; ".
C6_AddAppendsInOrder ==
    /\ [][(/\ last'.op = "add"
           /\ Len(last'.args) >= 2
           /\ IsTenDigits(last'.args[2]))
          => LET name  == last'.args[1]
                 phone == last'.args[2]
                 i     == AddressBook_find(book, name)
             IN  /\ out'.kind = "printed"
                 /\ out'.msg = (IF i = 0 THEN "Contact added." ELSE "Contact updated.")
                 /\ book' = IF i = 0
                            THEN Append(book, [name |-> name, phones |-> <<phone>>,
                                               birthday |-> <<>>])
                            ELSE [book EXCEPT ![i].phones = Append(@, phone)]]_vars
    /\ [](/\ last.op = "phone"
          /\ Len(last.args) = 1
          /\ AddressBook_find(book, last.args[1]) # 0
          => /\ out.kind = "printed"
             /\ Len(out.text) = 1
             /\ IsJoined(out.text[1], book[AddressBook_find(book, last.args[1])].phones))

\* The scenario: Alice was given 0123456789, then 9876543210, and
\* show-phones prints "0123456789; 9876543210".
C6_Witness ==
    /\ last = Call("phone", <<Alice>>)
    /\ out.text = <<P1 \o <<";", " ">> \o P2>>

\* C7: change-phone, show-phones, add-birthday and show-birthday, each with its
\* own number of arguments and a name that is not in the book, answer "Enter
\* user name." and leave the book as it was.
C7_UnknownNameChangesNothing ==
    [][(/\ \/ last'.op \in {"change", "add-birthday"} /\ Len(last'.args) = 2
           \/ last'.op \in {"phone", "show-birthday"} /\ Len(last'.args) = 1
        /\ AddressBook_find(book, last'.args[1]) = 0)
       => /\ out'.kind = "printed"
          /\ out'.msg = "Enter user name."
          /\ out'.text = <<>>
          /\ book' = book]_vars

\* change-phone for Bob, whom the book does not hold, while it holds Alice.
C7_Witness ==
    /\ last.op = "change"
    /\ Len(last.args) = 2
    /\ last.args[1] = Bob
    /\ out.msg = "Enter user name."
    /\ AddressBook_find(book, Alice) # 0
    /\ AddressBook_find(book, Bob) = 0

\* C8: edit_phone with a valid phone p leaves a record without phones with the
\* list <<p>>, as add_phone would, and in any other record replaces the phone
\* at index 0 only: the length and every later phone stay.
C8_EditReplacesFirst ==
    [][(last'.op = "edit_phone" /\ IsTenDigits(last'.args[2]))
       => LET i   == AddressBook_find(book, last'.args[1])
              p   == last'.args[2]
              old == book[i].phones
              new == book'[i].phones
          IN  /\ out'.kind = "returned"
              /\ Len(book') = Len(book)
              /\ \A j \in 1..Len(book) : j # i => book'[j] = book[j]
              /\ book'[i].name = book[i].name
              /\ book'[i].birthday = book[i].birthday
              /\ IF old = <<>>
                 THEN new = <<p>>
                 ELSE /\ Len(new) = Len(old)
                      /\ new[1] = p
                      /\ \A k \in 2..Len(old) : new[k] = old[k]]_vars

\* edit_phone on a record of three phones whose second differs from the new
\* first one.
C8_Witness ==
    /\ last.op = "edit_phone"
    /\ out.kind = "returned"
    /\ Len(book) = 1
    /\ Len(book[1].phones) = 3
    /\ book[1].phones[1] = last.args[2]
    /\ book[1].phones[2] # last.args[2]
    /\ book[1].phones[3] = last.args[2]

\* C9: remove_phone of a value the list does not hold raises "Phone number not
\* found." and leaves the list as it was; of a value it holds, it takes out the
\* first occurrence only and keeps the rest in order.
C9_RemoveFirstOccurrence ==
    [][last'.op = "remove_phone"
       => LET i   == AddressBook_find(book, last'.args[1])
              v   == last'.args[2]
              old == book[i].phones
              new == book'[i].phones
          IN  /\ Len(book') = Len(book)
              /\ \A j \in 1..Len(book) : j # i => book'[j] = book[j]
              /\ book'[i].name = book[i].name
              /\ book'[i].birthday = book[i].birthday
              /\ IF \A k \in 1..Len(old) : old[k] # v
                 THEN /\ out'.kind = "raised"
                      /\ out'.exc = "ValueError"
                      /\ out'.msg = "Phone number not found."
                      /\ new = old
                 ELSE /\ out'.kind = "returned"
                      /\ \E k \in 1..Len(old) :
                             /\ old[k] = v
                             /\ \A j \in 1..(k - 1) : old[j] # v
                             /\ Len(new) = Len(old) - 1
                             /\ \A j \in 1..(k - 1) : new[j] = old[j]
                             /\ \A j \in k..Len(new) : new[j] = old[j + 1]]_vars

\* remove_phone of 0123456789 that left 9876543210 followed by a later
\* 0123456789.
C9_Witness ==
    /\ last = Call("remove_phone", <<Alice, P1>>)
    /\ out.kind = "returned"
    /\ book[1].phones = <<P2, P1>>

\* C10: a command that answers with a validation error leaves the book as it
\* was.
C10_RejectedChangesNothing ==
    [][(/\ last'.op \in {"add", "change", "add-birthday"}
        /\ out'.msg \in {"Invalid phone number format.",
                         "Invalid date format. Use DD.MM.YYYY"})
       => book' = book]_vars

====
